---- MODULE Spec2Model ----
(***************************************************************************)
(* Model of src/src/components/createElementComponent.tsx: the component   *)
(* returned by createElementComponent(type, isServer).                     *)
(*                                                                         *)
(* One controller lifetime (one component instance) is modelled.  The host *)
(* render framework is the environment: it renders the component with new  *)
(* props, hands the container to the ref callback setDomNode, supplies the *)
(* factory through the provider context, runs the effects of a commit in   *)
(* hook order (layout effects first, passive effects after), runs the      *)
(* cleanup of the teardown effect and may run the effects again after a    *)
(* cleanup with the same closures (duplicate invocation).                  *)
(*                                                                         *)
(* The widget is opaque: the model records the calls made on it.           *)
(*                                                                         *)
(* A commit is one step: the render and its effects run synchronously on  *)
(* the single render thread, and the host flushes the passive effects of   *)
(* a commit before it does anything else with the component.  Each effect  *)
(* is an operator from the controller state before it to the controller    *)
(* state after it; Commit composes them in hook order.                     *)
(*                                                                         *)
(* The file holds two creation effects.  The text of the first one (lines  *)
(* 186-212) stops after its mount call, without its dependency list, so    *)
(* whether it runs again on an update commit is left open (run.A).  The    *)
(* second one (lines 223-254) has the dependency list of line 254.         *)
(***************************************************************************)
EXTENDS Integers, FiniteSets, Sequences, TLC

\* ------------------------------------------------------------- bounds
MaxTeardowns == 2

\* Caller handler identities (0 stands for an absent handler).
HandlerIds == {1, 2}
\* Values an option key can take (0 stands for an absent key).
OptionValues == {1, 2}
\* Container surfaces the host can hand to setDomNode.
Nodes == {1}
\* The container surfaces of the class-name specification.
Containers == Nodes \cup {2}
\* The longest className string of the reconciliation specification.
MaxClassLen == 3

\* ------------------------------------------------------ JS values
Null == 0
Undefined == -1
EventPayload == -2

\* The event names followed here: 'ready' (special callback, bound on both
\* creation paths), 'change' (cart wrapper, bound on both paths) and
\* 'confirm' (bound by useAttachEvent only).
Events == {"ready", "change", "confirm"}
\* The events the second creation effect binds with element.on.
DirectEvents == {"ready", "change"}

Types == {"card", "expressCheckout", "cart"}
Contexts == {"none", "elements", "customCheckoutSdk"}

OptionKeys == {"mode", "paymentRequest"}
ImmutableKeys == {"paymentRequest"}
OptionMaps == [OptionKeys -> {Null} \cup OptionValues]
EmptyOptions == [k \in OptionKeys |-> Null]
HandlerMaps == [Events -> {Null} \cup HandlerIds]
NoHandlers == [e \in Events |-> Null]
\* Object.keys(options)
Keys(o) == {k \in OptionKeys : o[k] # Null}

\* className strings: sequences of characters, " " the whitespace
ClassChars == {"a", "b", "c", " "}
ClassStrings == UNION {[1..n -> ClassChars] : n \in 0..MaxClassLen}
\* classNameProp = ''
EmptyClass == << >>
\* the className props of the class-name specification
ClassNameProps == {EmptyClass, <<"a">>, <<"b">>, <<"a", " ", "b">>}
\* class names that somebody else (the widget) puts on a container
ForeignClassNames == {<<"a">>, <<"b">>}

NoPrevious == [absent |-> TRUE]
NoUpdates == [none |-> TRUE]
NoCall == [w |-> Null, arg |-> NoUpdates]
NoDelivery == [event |-> "none", handler |-> Null, arg |-> Null, w |-> Null]
NoCallback == [defined |-> FALSE, h |-> Null, arg |-> Null, cart |-> FALSE]

VARIABLES
  cfg,          \* isServer, type, provider context, setCart
  props,        \* props of the latest render: handlers, options
  factory,      \* the provider supplied a factory at the latest render
  domNode,      \* the domNode state (Null or a container)
  elementC,     \* the element state as seen by the closures of the latest render
  prevOptions,  \* prevOptions as seen by the closures of the latest render
  optChanged,   \* the options reference changed at the latest render
  ctl,          \* the controller: refs, state, handler slots, and the calls
                \* made on each created widget
  cartState,    \* setCartState was called
  rendered,     \* the component has rendered once
  tornDown,     \* the cleanup ran and the effects did not run again yet
  teardowns,
  lastDestroy,  \* outcome of the destroy call of the latest teardown
  delivered,    \* the latest delivery of an event to a caller handler
  churned,      \* the latest render replaced a handler by another handler
                \* while a widget was mounted
  stable,       \* every render so far had the same container and factory
                \* available and no teardown ran
  recon         \* one application of the layout effect of useClassName:
                \* its inputs and its result

vars == <<cfg, props, factory, domNode, elementC, prevOptions, optChanged,
          ctl, cartState, rendered, tornDown, teardowns, lastDestroy,
          delivered, churned, stable, recon>>

\* --------------------------------------------------------- helpers

\* const elements = 'elements' in ctx ? ctx.elements : null
Elements(ctx, f) == IF ctx = "elements" /\ f THEN 1 ELSE Null
\* const customCheckoutSdk = 'customCheckoutSdk' in ctx ? ctx.customCheckoutSdk : null
CustomCheckoutSdk(ctx, f) == IF ctx = "customCheckoutSdk" /\ f THEN 1 ELSE Null

\* a widget as the factory returns it, with the calls made on it
NewWidget(via, by) ==
  [via |-> via, factory |-> by, mountCalls |-> 0, mountArg |-> Null,
   destroyCalls |-> 0,
   on |-> [e \in Events |-> 0],
   off |-> [e \in Events |-> 0]]

\* element.mount(arg)
Mount(w, arg) == [w EXCEPT !.mountCalls = @ + 1, !.mountArg = arg]

\* element.on(e, dispatcher) for every e of es
On(w, es) == [w EXCEPT !.on = [e \in Events |-> IF e \in es THEN @[e] + 1 ELSE @[e]]]

\* typeof elementRef.current.destroy === 'function': every WidgetInstance
\* has destroy
HasDestroy(w) == TRUE

\* readyCallback
ReadyCallback(type, onReady, elem) ==
  IF type = "cart"
    THEN [defined |-> TRUE, h |-> onReady, arg |-> EventPayload, cart |-> TRUE]
    ELSE IF onReady # Null
      THEN IF type = "expressCheckout"
        THEN [defined |-> TRUE, h |-> onReady, arg |-> EventPayload, cart |-> FALSE]
        ELSE [defined |-> TRUE, h |-> onReady, arg |-> elem, cart |-> FALSE]
      ELSE NoCallback

\* changeCallback
ChangeCallback(type, onChange) ==
  IF type = "cart"
    THEN [defined |-> TRUE, h |-> onChange, arg |-> EventPayload, cart |-> TRUE]
    ELSE IF onChange # Null
      THEN [defined |-> TRUE, h |-> onChange, arg |-> EventPayload, cart |-> FALSE]
      ELSE NoCallback

\* a handler passed to useAttachEvent as it is
PlainCallback(h) ==
  IF h # Null
    THEN [defined |-> TRUE, h |-> h, arg |-> EventPayload, cart |-> FALSE]
    ELSE NoCallback

\* (mutant) the 'confirm' line passes onChange
CallbackMixedUp(r, e) ==
  CASE e = "ready" -> ReadyCallback(r.type, r.handlers[e], r.element)
    [] e = "change" -> ChangeCallback(r.type, r.handlers[e])
    [] OTHER -> PlainCallback(r.handlers["change"])

\* the callback render r passes to useAttachEvent for event e
Callback(r, e) ==
  CASE e = "ready" -> ReadyCallback(r.type, r.handlers[e], r.element)
    [] e = "change" -> ChangeCallback(r.type, r.handlers[e])
    [] OTHER -> PlainCallback(r.handlers[e])

\* extractAllowedOptionsUpdates(options, prevOptions, immutableKeys)
ExtractAllowedOptionsUpdates(options, prev, immutableKeys) ==
  IF prev = NoPrevious THEN NoUpdates
  ELSE LET changed == {k \in Keys(options) : options[k] # prev[k]} \ immutableKeys
       IN IF changed = {} THEN NoUpdates
          ELSE [k \in OptionKeys |-> IF k \in changed THEN options[k] ELSE Null]

\* the dependency list of the second creation effect:
\* [elements, customCheckoutSdk, options, setCart]
CreationDepsChanged(factoryChanged, optionsChanged) ==
  factoryChanged \/ optionsChanged

\* the dependency list of the effect of useClassName: [domNode, classNameProp]
ClassNameDepsChanged(domNodeChanged, classNameChanged) ==
  domNodeChanged \/ classNameChanged

\* the dependency list of the options effect: [options, prevOptions]
UpdateDepsChanged(optionsChanged, prevChanged) == optionsChanged \/ prevChanged

\* some handler of g is replaced by another handler in h, and the same
\* events have a handler in g and in h
HandlerReplaced(g, h) ==
  /\ g # h
  /\ \A e \in Events : (g[e] = Null) = (h[e] = Null)

\* useElementsOrCustomCheckoutSdkContextWithUseCase(useCase): raises outside
\* a provider
UseContextWithUseCase(ctx) == ctx # "none"

\* (mutant) the component does not resolve the context
ContextUnchecked(ctx) == TRUE

\* both variants resolve the context first (lines 111-113 and 295-297)
ContextResolved(ctx) == UseContextWithUseCase(ctx)

\* ------------------------------------------------------ useClassName

Range(q) == {q[i] : i \in 1..Len(q)}

\* s without its leading whitespace
RECURSIVE SkipSpaces(_)
SkipSpaces(s) ==
  IF s # << >> /\ Head(s) = " " THEN SkipSpaces(Tail(s)) ELSE s

\* s.split(/\s+/): the pieces between the runs of whitespace, piece being the
\* piece read so far
RECURSIVE SplitSpaces(_, _)
SplitSpaces(s, piece) ==
  IF s = << >> THEN <<piece>>
  ELSE IF Head(s) = " "
    THEN <<piece>> \o SplitSpaces(SkipSpaces(s), << >>)
    ELSE SplitSpaces(Tail(s), Append(piece, Head(s)))

\* classNameProp.split(/\s+/).filter((n) => n.length)
SplitClassNames(s) == SelectSeq(SplitSpaces(s, << >>), LAMBDA n : Len(n) > 0)

\* (mutant) the effect removes every previous class name
UseClassNameRemovesAll(previousClassNameProp, classList, node, classNameProp) ==
  IF node = Null
    THEN [ref |-> classNameProp, classList |-> classList,
          added |-> {}, removed |-> {}]
    ELSE LET previousClassNames == SplitClassNames(previousClassNameProp)
             classNames == SplitClassNames(classNameProp)
         IN [ref |-> classNameProp,
             classList |-> (classList \cup Range(classNames))
                             \ Range(previousClassNames),
             added |-> Range(classNames),
             removed |-> Range(previousClassNames)]

\* the layout effect of useClassName (lines 61-77), classList being the
\* class list of the container: the new previousClassNamePropRef.current,
\* the new class list, and the names passed to classList.add and to
\* classList.remove
UseClassName(previousClassNameProp, classList, node, classNameProp) ==
  IF node = Null
    THEN [ref |-> classNameProp, classList |-> classList,
          added |-> {}, removed |-> {}]
    ELSE LET previousClassNames == SplitClassNames(previousClassNameProp)
             classNames == SplitClassNames(classNameProp)
             removedClassNames ==
               SelectSeq(previousClassNames,
                         LAMBDA n : n \notin Range(classNames))
         IN [ref |-> classNameProp,
             classList |-> (classList \cup Range(classNames))
                             \ Range(removedClassNames),
             added |-> Range(classNames),
             removed |-> Range(removedClassNames)]

\* ---------------------------------------------------------- effects
\* c is the controller state, r the render whose closures the effect holds:
\* type, setCart, handlers, options, domNode, elements, customCheckoutSdk,
\* element, prevOptions, and run, the effects the commit runs.

\* (mutant) the first creation effect without its elementRef guard
CreationEffectAUnguarded(c, r) ==
  IF ~r.run.A THEN c
  ELSE IF r.domNode = Null THEN [c EXCEPT !.error = "TypeError"]
  ELSE IF r.elements # Null \/ r.customCheckoutSdk # Null
    THEN LET w == Len(c.widgets) + 1
             by == IF r.customCheckoutSdk # Null
                     THEN "customCheckoutSdk" ELSE "elements"
         IN [c EXCEPT !.widgets = Append(@, Mount(NewWidget("A", by), Undefined)),
                      !.cart = IF r.type = "cart" /\ r.setCart THEN w ELSE @,
                      !.elementRef = w,
                      !.element = w]
  ELSE c

\* the first creation effect (useLayoutEffect, lines 186-212)
CreationEffectA(c, r) ==
  IF ~(r.run.A /\ c.elementRef = Null) THEN c
  ELSE IF r.domNode = Null
    THEN \* domNode.current on a null domNode
         [c EXCEPT !.error = "TypeError"]
  ELSE IF /\ Undefined # Null  \* domNode.current !== null
          /\ (r.elements # Null \/ r.customCheckoutSdk # Null)
    THEN LET w == Len(c.widgets) + 1
             by == IF r.customCheckoutSdk # Null
                     THEN "customCheckoutSdk" ELSE "elements"
         IN [c EXCEPT !.widgets = Append(@, Mount(NewWidget("A", by), Undefined)),
                      !.cart = IF r.type = "cart" /\ r.setCart THEN w ELSE @,
                      !.elementRef = w,
                      !.element = w,
                      !.log = @ \o <<"create", "mount">>]
  ELSE c

\* (mutant) the second creation effect without its elementRef guard
CreationEffectBUnguarded(c, r) ==
  IF r.run.B /\ r.elements # Null /\ r.domNode # Null
    THEN [c EXCEPT !.widgets = Append(@,
                     On(Mount(NewWidget("B", "elements"), r.domNode), DirectEvents)),
                   !.elementRef = Len(c.widgets) + 1]
    ELSE c

\* (mutant) the second creation effect also stores the widget in the
\* element state, as the first one does
CreationEffectBSetsElement(c, r) ==
  IF r.run.B /\ c.elementRef = Null /\ r.elements # Null /\ r.domNode # Null
    THEN [c EXCEPT !.widgets = Append(@,
                     On(Mount(NewWidget("B", "elements"), r.domNode), DirectEvents)),
                   !.elementRef = Len(c.widgets) + 1,
                   !.element = Len(c.widgets) + 1]
    ELSE c

\* the second creation effect (useLayoutEffect, lines 223-254)
CreationEffectB(c, r) ==
  IF r.run.B /\ c.elementRef = Null /\ r.elements # Null /\ r.domNode # Null
    THEN [c EXCEPT !.widgets = Append(@,
                     On(Mount(NewWidget("B", "elements"), r.domNode), DirectEvents)),
                   !.elementRef = Len(c.widgets) + 1,
                   !.log = @ \o <<"create", "mount">>]
    ELSE c

\* the setup of the teardown effect (useLayoutEffect with [], lines 271-285):
\* registers the cleanup
TeardownEffect(c, r) ==
  IF r.run.M THEN [c EXCEPT !.cleanup = TRUE] ELSE c

\* the layout effect of useClassName(domNode, className) (line 287), with
\* the dependency list [domNode, classNameProp]
ClassNameEffect(c, r) ==
  IF ~r.run.C THEN c
  ELSE LET e == UseClassName(c.classNameRef,
                             IF r.domNode = Null THEN {}
                               ELSE c.classList[r.domNode],
                             r.domNode, r.className)
       IN [c EXCEPT
             !.classNameRef = e.ref,
             !.classList = IF r.domNode = Null THEN @
                           ELSE [@ EXCEPT ![r.domNode] = e.classList],
             !.ownClasses = IF r.domNode = Null THEN @
                            ELSE [@ EXCEPT ![r.domNode] =
                                    (@ \cup e.added) \ e.removed],
             !.log = IF r.domNode = Null THEN @ ELSE Append(@, "classList")]

\* useAttachEvent(element, event, cb) for every event, and the effects of
\* useCallbackReference: the handler slots are rewritten; a dispatcher is
\* registered once per event on the widget held by the element state
AttachEvents(c, r) ==
  LET binds == {e \in Events : /\ Callback(r, e).defined
                               /\ r.element # Null
                               /\ c.bound[e] # r.element}
  IN [c EXCEPT !.slot = [e \in Events |-> Callback(r, e)],
               !.refSlot = [e \in Events |-> r.handlers[e]],
               !.bound = [e \in Events |-> IF e \in binds THEN r.element ELSE @[e]],
               !.widgets = IF binds = {} THEN @
                           ELSE [@ EXCEPT ![r.element] = On(@, binds)]]

\* usePrevious(options): the effect that stores the options of the render
UsePrevious(c, r) == [c EXCEPT !.prevRef = r.options]

\* (mutant) the options effect with no immutable key
OptionsUpdateEffectNoImmutable(c, r) ==
  IF ~r.run.U \/ c.elementRef = Null THEN c
  ELSE LET updates == ExtractAllowedOptionsUpdates(r.options, r.prevOptions, {})
       IN IF updates # NoUpdates
            THEN [c EXCEPT !.updateCall = [w |-> c.elementRef, arg |-> updates]]
            ELSE c

\* (mutant) the options effect without the test of updates
OptionsUpdateEffectUnconditional(c, r) ==
  IF ~r.run.U \/ c.elementRef = Null THEN c
  ELSE LET updates == ExtractAllowedOptionsUpdates(r.options, r.prevOptions,
                                                   ImmutableKeys)
       IN [c EXCEPT !.updateCall =
             [w |-> c.elementRef,
              arg |-> IF updates = NoUpdates THEN EmptyOptions ELSE updates]]

\* (mutant) the options effect takes absent previous options for empty ones
OptionsUpdateEffectNoPrevious(c, r) ==
  IF ~r.run.U \/ c.elementRef = Null THEN c
  ELSE LET prev == IF r.prevOptions = NoPrevious THEN EmptyOptions
                   ELSE r.prevOptions
           updates == ExtractAllowedOptionsUpdates(r.options, prev, ImmutableKeys)
       IN IF updates # NoUpdates
            THEN [c EXCEPT !.updateCall = [w |-> c.elementRef, arg |-> updates],
                           !.log = Append(@, "update")]
            ELSE c

\* the options effect (useEffect, lines 257-269)
OptionsUpdateEffect(c, r) ==
  IF ~r.run.U \/ c.elementRef = Null THEN c
  ELSE LET updates == ExtractAllowedOptionsUpdates(r.options, r.prevOptions,
                                                   ImmutableKeys)
       IN IF updates # NoUpdates
            THEN [c EXCEPT !.updateCall = [w |-> c.elementRef, arg |-> updates],
                           !.log = Append(@, "update")]
            ELSE c

\* (mutant) the cleanup without its try/catch
TeardownCleanupNoCatch(c, raises) ==
  IF c.elementRef # Null /\ HasDestroy(c.elementRef)
    THEN IF raises
      THEN [c EXCEPT !.widgets[c.elementRef].destroyCalls = @ + 1,
                     !.error = "destroy"]
      ELSE [c EXCEPT !.widgets[c.elementRef].destroyCalls = @ + 1,
                     !.elementRef = Null]
    ELSE c

\* (mutant) the cleanup clears the reference without calling destroy
TeardownCleanupClearsOnly(c, raises) ==
  IF c.elementRef # Null /\ HasDestroy(c.elementRef)
    THEN [c EXCEPT !.elementRef = Null]
    ELSE c

\* the cleanup of the teardown effect (lines 272-284): destroy may raise;
\* the catch block does nothing
TeardownCleanup(c, raises) ==
  IF c.elementRef # Null /\ HasDestroy(c.elementRef)
    THEN IF raises
      THEN [c EXCEPT !.widgets[c.elementRef].destroyCalls = @ + 1]
      ELSE [c EXCEPT !.widgets[c.elementRef].destroyCalls = @ + 1,
                     !.elementRef = Null]
    ELSE c

\* an effect of the commit; an error raised by an earlier effect of the
\* commit ends the commit
Step(Effect(_, _), c, r) == IF c.error # "none" THEN c ELSE Effect(c, r)

\* (mutant) the effect of useClassName runs before the creation effects
CommitClassNameFirst(c, r) ==
  LET c0 == [c EXCEPT !.updateCall = NoCall, !.log = << >>]
      c1 == Step(ClassNameEffect, c0, r)
      c2 == Step(CreationEffectA, c1, r)
      c3 == Step(CreationEffectB, c2, r)
      c4 == Step(TeardownEffect, c3, r)
      c5 == Step(AttachEvents, c4, r)
      c6 == Step(UsePrevious, c5, r)
  IN Step(OptionsUpdateEffect, c6, r)

\* the effects of one commit in hook order: layout effects, then passive
\* effects.  log is the sequence of the create, mount and update calls and
\* of the class-list calls the commit makes (the on calls are counted per
\* widget).
Commit(c, r) ==
  LET c0 == [c EXCEPT !.updateCall = NoCall, !.log = << >>]
      c1 == Step(CreationEffectA, c0, r)
      c2 == Step(CreationEffectB, c1, r)
      c3 == Step(TeardownEffect, c2, r)
      c4 == Step(ClassNameEffect, c3, r)
      c5 == Step(AttachEvents, c4, r)
      c6 == Step(UsePrevious, c5, r)
  IN Step(OptionsUpdateEffect, c6, r)

\* the closures of a render
Render(h, o, d, f, cn, elem, prev, runs) ==
  [type |-> cfg.type, setCart |-> cfg.setCart, handlers |-> h, options |-> o,
   className |-> cn,
   domNode |-> d, elements |-> Elements(cfg.ctx, f),
   customCheckoutSdk |-> CustomCheckoutSdk(cfg.ctx, f),
   element |-> elem, prevOptions |-> prev, run |-> runs]

\* ------------------------------------------------------------ Init
InitController ==
  /\ cfg \in {c \in [isServer : BOOLEAN, type : Types, ctx : Contexts,
                     setCart : BOOLEAN] :
                /\ c.setCart
                /\ (c.isServer => c.type = "card")}
  /\ props = [handlers |-> NoHandlers, options |-> EmptyOptions,
              className |-> EmptyClass]
  /\ factory = FALSE
  /\ domNode = Null
  /\ elementC = Null
  /\ prevOptions = NoPrevious
  /\ optChanged = TRUE
  /\ ctl = [elementRef |-> Null, element |-> Null, prevRef |-> NoPrevious,
            slot |-> [e \in Events |-> NoCallback],
            refSlot |-> [e \in Events |-> Null],
            bound |-> [e \in Events |-> Null],
            widgets |-> << >>, cart |-> Null, cleanup |-> FALSE,
            error |-> "none", updateCall |-> NoCall,
            classNameRef |-> EmptyClass,
            classList |-> [n \in Containers |-> {}],
            ownClasses |-> [n \in Containers |-> {}],
            log |-> << >>]
  /\ cartState = FALSE
  /\ rendered = FALSE
  /\ tornDown = FALSE
  /\ teardowns = 0
  /\ lastDestroy = "none"
  /\ delivered = NoDelivery
  /\ churned = FALSE
  /\ stable = TRUE

\* no application of the layout effect of useClassName is followed
NoReconcile ==
  [previous |-> EmptyClass, current |-> EmptyClass, domNode |-> Null,
   before |-> {}, after |-> {}, done |-> TRUE]

Init == InitController /\ recon = NoReconcile

\* ----------------------------------------------------------- render

\* useElementsOrCustomCheckoutSdkContextWithUseCase outside a provider:
\* the render raises before any hook runs
ContextError ==
  /\ ctl.error = "none"
  /\ ~ContextResolved(cfg.ctx)
  /\ ctl' = [ctl EXCEPT !.error = "context"]
  /\ UNCHANGED <<cfg, props, factory, domNode, elementC, prevOptions,
                 optChanged, cartState, rendered, tornDown, teardowns,
                 lastDestroy, delivered, churned, stable, recon>>

\* ServerElement: validates the context and renders the container
RenderServer ==
  /\ ctl.error = "none"
  /\ cfg.isServer /\ ContextResolved(cfg.ctx)
  /\ rendered' = TRUE
  /\ UNCHANGED <<cfg, props, factory, domNode, elementC, prevOptions,
                 optChanged, ctl, cartState, tornDown, teardowns,
                 lastDestroy, delivered, churned, stable, recon>>

\* ClientElement: one render and its commit.  The host hands the container
\* to setDomNode and the provider supplies the factory; the closures of the
\* render capture the element state and the previous options.
ClientElement(H, O, D, F, CN) ==
  /\ ctl.error = "none"
  /\ ~cfg.isServer /\ ContextResolved(cfg.ctx) /\ ~tornDown
  /\ \E h \in H, o \in O, oNew \in BOOLEAN, d \in D, f \in F,
        ra \in BOOLEAN, cn \in CN :
       LET first == ~rendered
           optionsChanged == oNew \/ o # props.options
           runs == [M |-> first,
                    A |-> first \/ ra,
                    B |-> first \/ CreationDepsChanged(f # factory, optionsChanged),
                    C |-> first \/ ClassNameDepsChanged(d # domNode,
                                                        cn # props.className),
                    U |-> first \/ UpdateDepsChanged(optionsChanged, optChanged)]
           \* React.useRef(classNameProp) at the first render
           c == IF first THEN [ctl EXCEPT !.classNameRef = cn] ELSE ctl
       IN /\ props' = [handlers |-> h, options |-> o, className |-> cn]
          /\ domNode' = d
          /\ factory' = f
          /\ optChanged' = optionsChanged
          /\ ctl' = Commit(c, Render(h, o, d, f, cn, ctl.element, ctl.prevRef, runs))
          /\ churned' = (ctl.elementRef # Null /\ HandlerReplaced(props.handlers, h))
          /\ stable' = (/\ stable /\ d # Null /\ f
                        /\ (first \/ (d = domNode /\ f = factory)))
  /\ elementC' = ctl.element
  /\ prevOptions' = ctl.prevRef
  /\ rendered' = TRUE
  /\ delivered' = NoDelivery
  /\ UNCHANGED <<cfg, cartState, tornDown, teardowns, lastDestroy, recon>>

\* --------------------------------------------------------- teardown

\* the host runs the cleanup of the teardown effect; the widget's destroy
\* returns or raises
Teardown ==
  /\ ctl.error = "none" /\ ctl.cleanup /\ teardowns < MaxTeardowns
  /\ teardowns' = teardowns + 1
  /\ tornDown' = TRUE
  /\ stable' = FALSE
  /\ \E raises \in BOOLEAN :
       /\ ctl' = TeardownCleanup(ctl, raises)
       /\ lastDestroy' = IF ctl.elementRef = Null THEN "none"
                         ELSE IF raises THEN "raised" ELSE "returned"
  /\ UNCHANGED <<cfg, props, factory, domNode, elementC, prevOptions,
                 optChanged, cartState, rendered, delivered, churned, recon>>

\* the host runs the effects again after a cleanup, with the closures of
\* the latest render (duplicate invocation of the setup step)
Resetup ==
  /\ ctl.error = "none" /\ tornDown
  /\ tornDown' = FALSE
  /\ ctl' = Commit(ctl, Render(props.handlers, props.options, domNode, factory,
                               props.className, elementC, prevOptions,
                               [M |-> TRUE, A |-> TRUE, B |-> TRUE, C |-> TRUE,
                                U |-> TRUE]))
  /\ delivered' = NoDelivery
  /\ lastDestroy' = "none"
  /\ UNCHANGED <<cfg, props, factory, domNode, elementC, prevOptions,
                 optChanged, cartState, rendered, teardowns, churned, stable,
                 recon>>

\* ----------------------------------------------------------- events

\* a widget emits an event: the dispatcher registered for it forwards it
Emit ==
  /\ ctl.error = "none"
  /\ \E w \in 1..Len(ctl.widgets), e \in Events :
       /\ ctl.widgets[w].on[e] > 0
       /\ ctl.widgets[w].destroyCalls = 0
       /\ IF ctl.widgets[w].via = "A"
            THEN /\ ctl.slot[e].defined
                 /\ cartState' = (cartState \/ ctl.slot[e].cart)
                 /\ delivered' = IF ctl.slot[e].h # Null
                                   THEN [event |-> e, handler |-> ctl.slot[e].h,
                                         arg |-> ctl.slot[e].arg, w |-> w]
                                   ELSE NoDelivery
            ELSE /\ ctl.refSlot[e] # Null
                 /\ cartState' = cartState
                 /\ delivered' = [event |-> e, handler |-> ctl.refSlot[e],
                                  arg |-> IF e = "ready" THEN w ELSE EventPayload,
                                  w |-> w]
  /\ UNCHANGED <<cfg, props, factory, domNode, elementC, prevOptions,
                 optChanged, ctl, rendered, tornDown, teardowns, lastDestroy,
                 churned, stable, recon>>

\* ------------------------------------------------------ class names

\* somebody else (the widget, lines 44-48) puts a class name on a container
ContainerClassAdded ==
  /\ ctl.error = "none" /\ rendered
  /\ \E n \in Containers, t \in ForeignClassNames :
       /\ t \notin ctl.classList[n]
       /\ ctl' = [ctl EXCEPT !.classList[n] = @ \cup {t}]
  /\ UNCHANGED <<cfg, props, factory, domNode, elementC, prevOptions,
                 optChanged, cartState, rendered, tornDown, teardowns,
                 lastDestroy, delivered, churned, stable, recon>>

\* the layout effect of useClassName applied once to the inputs of recon
Reconcile ==
  /\ ~recon.done
  /\ recon' = [recon EXCEPT
                 !.done = TRUE,
                 !.after = UseClassName(recon.previous, recon.before,
                                        recon.domNode, recon.current).classList]
  /\ UNCHANGED <<cfg, props, factory, domNode, elementC, prevOptions,
                 optChanged, ctl, cartState, rendered, tornDown, teardowns,
                 lastDestroy, delivered, churned, stable>>

\* the renders of the three specifications.  Spec: two handler maps, the
\* container and the factory come and go.  SpecEvents: every handler map,
\* one handler changing per render.  SpecOptions: every options map.  In
\* the last two the container is there from the first render.
RenderClient ==
  ClientElement({NoHandlers, [e \in Events |-> 1]}, {EmptyOptions},
                {Null} \cup Nodes, BOOLEAN, {EmptyClass})
RenderEvents ==
  ClientElement({h \in HandlerMaps :
                   Cardinality({e \in Events : h[e] # props.handlers[e]}) <= 1},
                {EmptyOptions}, Nodes, BOOLEAN, {EmptyClass})
RenderOptions ==
  ClientElement({NoHandlers}, OptionMaps, Nodes, BOOLEAN, {EmptyClass})
\* the renders of the class-name specification: the className prop changes,
\* the container comes, goes and is replaced by another one
RenderClassName ==
  ClientElement({NoHandlers}, {EmptyOptions}, {Null} \cup Containers, {TRUE},
                ClassNameProps)

Next ==
  \/ ContextError
  \/ RenderServer
  \/ RenderClient
  \/ Teardown
  \/ Resetup

NextEvents ==
  \/ RenderEvents
  \/ Emit

NextOptions ==
  \/ RenderOptions
  \/ Teardown
  \/ Resetup

NextClassName ==
  \/ RenderClassName
  \/ ContainerClassAdded

NextReconcile == Reconcile

\* the client variant inside an Elements provider, for every widget kind
InitEvents == Init /\ ~cfg.isServer /\ cfg.ctx = "elements"
\* the client variant of the card widget inside an Elements provider
InitOptions == InitEvents /\ cfg.type = "card"

\* the inputs of one application of the layout effect of useClassName: the
\* previous and the current className, the container and its class list
InitReconcile ==
  /\ InitController /\ ~cfg.isServer /\ cfg.ctx = "elements"
  /\ cfg.type = "card"
  /\ recon \in [previous : ClassStrings, current : ClassStrings,
                domNode : {Null} \cup Nodes,
                before : SUBSET ForeignClassNames,
                after : {{}}, done : {FALSE}]

Spec == Init /\ [][Next]_vars
SpecClassName == InitOptions /\ [][NextClassName]_vars
SpecReconcile == InitReconcile /\ [][NextReconcile]_vars
SpecEvents == InitEvents /\ [][NextEvents]_vars
SpecOptions == InitOptions /\ [][NextOptions]_vars

\* ----------------------------------------------------------- claims

WidgetIds(c) == 1..Len(c.widgets)
\* the widgets created and not yet destroyed
Alive(c) == {w \in WidgetIds(c) : c.widgets[w].destroyCalls = 0}
\* the on and off calls made so far, per widget and event
OnTable(c) == [w \in WidgetIds(c) |-> c.widgets[w].on]
OffTable(c) == [w \in WidgetIds(c) |-> c.widgets[w].off]
\* the keys of the current options that are new or differ from the
\* previous options and can be updated
UpdatableChanges ==
  IF prevOptions = NoPrevious THEN {}
  ELSE {k \in OptionKeys : /\ props.options[k] # Null
                           /\ props.options[k] # prevOptions[k]
                           /\ k # "paymentRequest"}

\* C1: while every render has had the same container and factory available
\* and no teardown ran, create was called exactly once and mount exactly
\* once, whatever the handlers and options of the renders.
C1_CreateAndMountOnce ==
  (stable /\ rendered /\ ~cfg.isServer) =>
    (Len(ctl.widgets) = 1 /\ ctl.widgets[1].mountCalls = 1)

\* a re-render (it sees the element state set by an earlier commit) of a
\* stable run
C1_Witness == stable /\ elementC # Null /\ Len(ctl.widgets) = 1

\* C2: at most one widget is created and not yet destroyed; a step taken
\* while such a widget exists creates no widget, mounts nothing and makes
\* none of the on calls of the setup step (those of the second creation
\* effect, made on the widgets it created).
C2_NoSecondCreation ==
  /\ [](Cardinality(Alive(ctl)) <= 1)
  /\ [][Alive(ctl) # {} =>
          /\ Len(ctl'.widgets) = Len(ctl.widgets)
          /\ \A w \in WidgetIds(ctl) :
               /\ ctl'.widgets[w].mountCalls = ctl.widgets[w].mountCalls
               /\ (ctl.widgets[w].via = "B" =>
                     ctl'.widgets[w].on = ctl.widgets[w].on)]_vars

\* the latest render changed the options reference, so the second creation
\* effect ran, while a widget created by an earlier commit existed
C2_Witness ==
  /\ teardowns = 0 /\ elementC # Null /\ optChanged
  /\ Alive(ctl) = {ctl.elementRef}

\* C3 (as claimed): once the teardown step ran, destroy was called exactly
\* once on every widget created, also when the teardown step ran twice in a
\* row and when destroy raised.
C3_DestroyExactlyOnce ==
  tornDown => \A w \in WidgetIds(ctl) : ctl.widgets[w].destroyCalls = 1

\* C4: when destroy raises during teardown, the teardown step completes and
\* no error reaches the host.
C4_DestroyErrorDiscarded ==
  lastDestroy = "raised" => (ctl.error = "none" /\ tornDown)

C4_Witness == lastDestroy = "raised" /\ teardowns = 2

\* C5 (as claimed): after a teardown in which destroy raised, the
\* controller's widget reference is null.
C5_RefClearedAfterRaise ==
  lastDestroy = "raised" => ctl.elementRef = Null

C8_UpdateArgument ==
  ctl.updateCall # NoCall =>
    /\ prevOptions # NoPrevious
    /\ ctl.updateCall.arg =
         [k \in OptionKeys |-> IF k \in UpdatableChanges
                                 THEN props.options[k] ELSE Null]

\* {mode: 1} -> {mode: 2, paymentRequest: 1} yields update({mode: 2})
C8_Witness ==
  /\ prevOptions = [mode |-> 1, paymentRequest |-> Null]
  /\ props.options = [mode |-> 2, paymentRequest |-> 1]
  /\ ctl.updateCall.arg = [mode |-> 2, paymentRequest |-> Null]

\* C9: when no updatable key changed relative to the previous render, update
\* is not called; update is never called with an empty mapping.
C9_NoEmptyUpdate ==
  /\ (UpdatableChanges = {} => ctl.updateCall = NoCall)
  /\ (ctl.updateCall # NoCall =>
        ctl.updateCall.arg # NoUpdates /\ ctl.updateCall.arg # EmptyOptions)

\* a re-render with a mounted widget where only the immutable key changed
C9_Witness ==
  /\ ctl.elementRef # Null /\ prevOptions # NoPrevious
  /\ props.options["paymentRequest"] # prevOptions["paymentRequest"]
  /\ props.options["mode"] = 1 /\ prevOptions["mode"] = 1
  /\ ctl.updateCall = NoCall

\* C10: without a provider the render raises the context error: the
\* component never renders and no call is made on any widget or factory,
\* in the client and in the server variant.
C10_ContextErrorFirst ==
  cfg.ctx = "none" =>
    /\ ~rendered
    /\ ctl.widgets = << >>
    /\ ctl.updateCall = NoCall
    /\ ctl.error \in {"none", "context"}

C10_Witness == cfg.ctx = "none" /\ ~cfg.isServer /\ ctl.error = "context"

\* C11 (as claimed): a widget is created only in a step that has the
\* container and a factory; a setup step without the container or without a
\* factory, taken while no widget is referenced, makes no widget call,
\* raises no error and leaves the widget reference unset.
C11_WaitsWithoutError ==
  /\ [][Len(ctl'.widgets) > Len(ctl.widgets) =>
          (domNode' # Null /\ factory')]_vars
  /\ [][(/\ rendered' /\ ~cfg.isServer /\ ~tornDown'
         /\ ctl.error = "none" /\ ctl.elementRef = Null
         /\ (domNode' = Null \/ ~factory')) =>
          /\ ctl'.error = "none"
          /\ ctl'.widgets = ctl.widgets
          /\ ctl'.elementRef = Null
          /\ ctl'.updateCall = NoCall]_vars

\* C12 (as claimed): while no teardown ran, a controller that has rendered
\* is waiting or has created: no render has failed, and when the latest
\* render had the container and the factory the widget has been created,
\* also when they became available only after the first render.
C12_CreatedOnceAvailable ==
  (rendered /\ ~cfg.isServer /\ teardowns = 0) =>
    /\ ctl.error = "none"
    /\ (domNode # Null /\ factory) => ctl.elementRef # Null

\* the whitespace-delimited non-empty tokens of the class string s
Tokens(s) ==
  {SubSeq(s, i, j) : <<i, j>> \in
     {p \in (1..Len(s)) \X (1..Len(s)) :
        /\ p[1] <= p[2]
        /\ \A k \in p[1]..p[2] : s[k] # " "
        /\ (p[1] = 1 \/ s[p[1] - 1] = " ")
        /\ (p[2] = Len(s) \/ s[p[2] + 1] = " ")}}

\* C13: on a container, reconciliation adds every token of the current
\* class string, removes exactly the tokens of the previous string that are
\* not in the current one, and leaves every other token of the container
\* as it was; on a null container it changes nothing.
C13_Reconcile ==
  recon.done =>
    IF recon.domNode = Null THEN recon.after = recon.before
    ELSE /\ Tokens(recon.current) \subseteq recon.after
         /\ recon.before \ recon.after =
              recon.before \cap (Tokens(recon.previous) \ Tokens(recon.current))
         /\ recon.after \ recon.before \subseteq Tokens(recon.current)

\* 'a b' -> 'b c' on a container with a and b: c added, a removed, b kept
C13_Witness ==
  /\ recon.done /\ recon.domNode # Null
  /\ recon.previous = <<"a", " ", "b">> /\ recon.current = <<"b", " ", "c">>
  /\ recon.before = {<<"a">>, <<"b">>}
  /\ recon.after = {<<"b">>, <<"c">>}

\* C14: among the calls of one commit, no update call and no class-list call
\* comes before a create or a mount call; update is called only on a widget
\* whose mount was called.
C14_CreateMountFirst ==
  /\ \A i, j \in 1..Len(ctl.log) :
       (i < j /\ ctl.log[j] \in {"create", "mount"}) =>
         ctl.log[i] \notin {"update", "classList"}
  /\ ctl.updateCall # NoCall =>
       ctl.widgets[ctl.updateCall.w].mountCalls >= 1

\* a commit that creates and mounts a widget, reconciles the classes and
\* calls update
C14_Witness == ctl.log = <<"create", "mount", "classList", "update">>

\* C15 (as claimed): the step that creates a widget calls mount on it once
\* with the container, and then binds every event the caller gave a handler
\* for to it exactly once, before the step ends.
C15_MountAndBindAtCreation ==
  [][Len(ctl'.widgets) > Len(ctl.widgets) =>
       LET w == ctl'.widgets[Len(ctl'.widgets)]
       IN /\ w.mountCalls = 1
          /\ w.mountArg = domNode'
          /\ \A e \in Events :
               /\ w.on[e] <= 1
               /\ props'.handlers[e] # Null => w.on[e] = 1]_vars

\* C16: a commit whose render has no previous options (the first render, and
\* the effects run again after it) or has options equal to the previous
\* ones calls update on no widget.
C16_NoUpdateOnFirstRender ==
  (prevOptions = NoPrevious \/ prevOptions = props.options) =>
    ctl.updateCall = NoCall

\* the first render created the widget with the option mode set
C16_Witness ==
  /\ rendered /\ prevOptions = NoPrevious /\ ctl.elementRef # Null
  /\ props.options["mode"] = 1
  /\ ctl.log = <<"create", "mount", "classList">>

\* C17 (as claimed): a step removes from the class list of a container only
\* class names the reconciler added to that container earlier.
C17_RemovesOnlyOwnClasses ==
  [][\A n \in Containers :
       (ctl.classList[n] \ ctl'.classList[n]) \subseteq ctl.ownClasses[n]]_vars

C19_NoCallAfterDestroy ==
  /\ [](\A w \in WidgetIds(ctl) :
          (\/ ctl.widgets[w].destroyCalls > 0
           \/ \E e \in Events : ctl.widgets[w].on[e] > 0) =>
            ctl.widgets[w].mountCalls >= 1)
  /\ [][\A w \in WidgetIds(ctl) :
          ctl.widgets[w].destroyCalls > 0 =>
            /\ ctl'.widgets[w].mountCalls = ctl.widgets[w].mountCalls
            /\ ctl'.widgets[w].on = ctl.widgets[w].on
            /\ ctl'.widgets[w].off = ctl.widgets[w].off
            /\ ~(~tornDown' /\ ctl'.updateCall.w = w)]_vars

\* C20: once the teardown step ran, destroy has been called on every widget
\* that was created and no error reached the host; a teardown with no
\* widget created made no widget call.
C20_TeardownHonoured ==
  tornDown =>
    /\ ctl.error = "none"
    /\ \A w \in WidgetIds(ctl) : ctl.widgets[w].destroyCalls >= 1
    /\ ctl.widgets = << >> => (lastDestroy = "none" /\ ctl.updateCall = NoCall)

\* the teardown of a second widget, created after the first was destroyed
C20_Witness ==
  /\ tornDown /\ Len(ctl.widgets) = 2
  /\ ctl.widgets[1].destroyCalls = 1 /\ ctl.widgets[2].destroyCalls = 1

====
